---- MODULE Spec2Model ----
(***************************************************************************)
(* Hash-to-prime by recursive Pocklington certificates                     *)
(* (src/src/hash/pocklington/mod.rs).                                      *)
(*                                                                         *)
(* The module models                                                       *)
(*   - PocklingtonPlan::new, entropy(), max_bits()  (the bit-budget DP),   *)
(*   - attempt_pocklington_extension, execute_pocklington_plan and the     *)
(*     native hash_to_pocklington_prime (the certificate search),          *)
(*   - the circuit procedure hash_to_pocklington_prime (the re-derivation  *)
(*     of the number from the certificate's hints).                        *)
(*                                                                         *)
(* BigUint values are arbitrary-precision in the source.  They are         *)
(* little-endian sequences of limbs here, so that the 32-bit seed and the  *)
(* 50..80-bit numbers built from it keep their real magnitude.             *)
(***************************************************************************)
EXTENDS Integers, Sequences, FiniteSets, TLC

(***************************************************************************)
(* BigUint arithmetic                                                      *)
(***************************************************************************)

RECURSIVE Pow2(_)
Pow2(k) == IF k = 0 THEN 1 ELSE 2 * Pow2(k - 1)

LimbBits == 15

LimbBase == Pow2(LimbBits)

Limb(a, i) == IF i <= Len(a) THEN a[i] ELSE 0

RECURSIVE Trim(_)
Trim(a) ==
  IF a = <<>> THEN a
  ELSE IF a[Len(a)] = 0 THEN Trim(SubSeq(a, 1, Len(a) - 1)) ELSE a

RECURSIVE FromInt(_)
FromInt(n) == IF n = 0 THEN <<>> ELSE <<n % LimbBase>> \o FromInt(n \div LimbBase)

Zero == <<>>

One == <<1>>

RECURSIVE CmpFrom(_, _, _)
CmpFrom(a, b, i) ==
  IF i = 0 THEN 0
  ELSE IF a[i] < b[i] THEN -1
  ELSE IF a[i] > b[i] THEN 1
  ELSE CmpFrom(a, b, i - 1)

Cmp(a, b) ==
  IF Len(a) < Len(b) THEN -1
  ELSE IF Len(a) > Len(b) THEN 1
  ELSE CmpFrom(a, b, Len(a))

Less(a, b) == Cmp(a, b) < 0

RECURSIVE AddFrom(_, _, _, _)
AddFrom(a, b, i, c) ==
  IF i > Len(a) /\ i > Len(b) THEN (IF c = 0 THEN <<>> ELSE <<c>>)
  ELSE LET s == Limb(a, i) + Limb(b, i) + c
       IN <<s % LimbBase>> \o AddFrom(a, b, i + 1, s \div LimbBase)

Add(a, b) == AddFrom(a, b, 1, 0)

RECURSIVE SubFrom(_, _, _, _)
SubFrom(a, b, i, c) ==
  IF i > Len(a) THEN <<>>
  ELSE LET s == a[i] - Limb(b, i) - c
       IN IF s < 0 THEN <<s + LimbBase>> \o SubFrom(a, b, i + 1, 1)
          ELSE <<s>> \o SubFrom(a, b, i + 1, 0)

Sub(a, b) == Trim(SubFrom(a, b, 1, 0))

RECURSIVE MulSmallFrom(_, _, _, _)
MulSmallFrom(a, d, i, c) ==
  IF i > Len(a) THEN (IF c = 0 THEN <<>> ELSE <<c>>)
  ELSE LET s == a[i] * d + c
       IN <<s % LimbBase>> \o MulSmallFrom(a, d, i + 1, s \div LimbBase)

MulSmall(a, d) == IF d = 0 THEN <<>> ELSE MulSmallFrom(a, d, 1, 0)

RECURSIVE MulFrom(_, _, _)
MulFrom(a, b, j) ==
  IF j > Len(b) THEN <<>>
  ELSE LET hi == MulFrom(a, b, j + 1)
       IN Add(MulSmall(a, b[j]), IF hi = <<>> THEN <<>> ELSE <<0>> \o hi)

Mul(a, b) == IF a = <<>> \/ b = <<>> THEN <<>> ELSE MulFrom(a, b, 1)

RECURSIVE DivSmallFrom(_, _, _, _)
DivSmallFrom(a, d, i, r) ==
  IF i = 0 THEN <<>>
  ELSE LET t == r * LimbBase + a[i]
       IN DivSmallFrom(a, d, i - 1, t % d) \o <<t \div d>>

DivSmall(a, d) == Trim(DivSmallFrom(a, d, Len(a), 0))

RECURSIVE Fix(_, _, _)
Fix(t, r, v) == IF Cmp(t, r) > 0 THEN Fix(Sub(t, v), r, v) ELSE t

\* one quotient digit of the long division: r - q * v with r < v * LimbBase,
\* the digit estimated from the two leading limbs (v normalised)
RemStep(r, v) ==
  LET n == Len(v)
      top == Limb(r, n + 1) * LimbBase + r[n]
      q0 == top \div v[n]
      qhat == IF q0 > LimbBase - 1 THEN LimbBase - 1 ELSE q0
  IN Sub(r, Fix(MulSmall(v, qhat), r, v))

RECURSIVE RemFrom(_, _, _, _)
RemFrom(u, v, i, r) ==
  IF i = 0 THEN r
  ELSE LET t == Trim(<<u[i]>> \o r)
       IN IF Cmp(t, v) < 0 THEN RemFrom(u, v, i - 1, t)
          ELSE RemFrom(u, v, i - 1, RemStep(t, v))

Mod(u, v) ==
  IF Cmp(u, v) < 0 THEN u
  ELSE LET f == LimbBase \div (v[Len(v)] + 1)
           uf == MulSmall(u, f)
           vf == MulSmall(v, f)
       IN DivSmall(RemFrom(uf, vf, Len(uf), <<>>), f)

BitLen1(d) == CHOOSE k \in 0..LimbBits : Pow2(k) > d /\ (k = 0 \/ Pow2(k - 1) <= d)

Bits(a) == IF a = <<>> THEN 0 ELSE LimbBits * (Len(a) - 1) + BitLen1(a[Len(a)])

Bit(a, i) == (Limb(a, (i \div LimbBits) + 1) \div Pow2(i % LimbBits)) % 2

RECURSIVE PowFrom(_, _, _, _, _)
PowFrom(acc, b, e, m, i) ==
  IF i < 0 \/ acc = Zero THEN acc
  ELSE LET sq == Mod(Mul(acc, acc), m)
       IN PowFrom(IF Bit(e, i) = 1 THEN Mod(Mul(sq, b), m) ELSE sq, b, e, m, i - 1)

ModPow(b, e, m) == PowFrom(Mod(One, m), b, e, m, Bits(e) - 1)

RECURSIVE Gcd(_, _)
Gcd(a, b) == IF b = <<>> THEN a ELSE Gcd(b, Mod(a, b))

(***************************************************************************)
(* PocklingtonPlan                                                         *)
(***************************************************************************)

\* prime_trials(bits, 2^-64) is evaluated in f64 by the source; it crosses a
\* power of two at the bit-lengths below, which is where
\* ((trials as f64).log2().ceil() + 0.1) as usize steps.
nonce_bits_needed(bits) ==
  IF bits < 2 THEN 0
  ELSE IF bits < 8 THEN 8
  ELSE IF bits < 16 THEN 9
  ELSE IF bits < 33 THEN 10
  ELSE IF bits < 66 THEN 11
  ELSE IF bits < 133 THEN 12
  ELSE IF bits < 266 THEN 13
  ELSE IF bits < 533 THEN 14
  ELSE IF bits < 1065 THEN 15
  ELSE IF bits < 2131 THEN 16
  ELSE IF bits < 4262 THEN 17
  ELSE IF bits < 8525 THEN 18
  ELSE IF bits < 17050 THEN 19
  ELSE IF bits < 34101 THEN 20
  ELSE IF bits < 68202 THEN 21
  ELSE 22

MinEntropy == 29

SeedBits == 32

UsizeMax == 2147483647

SeedNonceBits == nonce_bits_needed(SeedBits) - 1

SeedEntry ==
  [entropy |-> SeedBits - 3 - SeedNonceBits,
   marginal_entropy |-> SeedBits - 3 - SeedNonceBits,
   bits |-> SeedBits,
   random_bits |-> 0,
   nonce_bits |-> SeedNonceBits]

Last(s) == s[Len(s)]

\* NonceLoop with the applicability test off by one (> for >=)
RECURSIVE NonceLoop_Lax(_, _, _)
NonceLoop_Lax(random_bits, base_bits, nonce_bits) ==
  IF random_bits + nonce_bits + 1 > base_bits
  THEN [error |-> TRUE, nonce_bits |-> nonce_bits, next_bits |-> 0]
  ELSE LET next_bits == nonce_bits + random_bits + base_bits + 1
       IN IF nonce_bits >= nonce_bits_needed(next_bits)
          THEN [error |-> FALSE, nonce_bits |-> nonce_bits, next_bits |-> next_bits]
          ELSE NonceLoop_Lax(random_bits, base_bits, nonce_bits + 1)

\* the inner `loop`: grow nonce_bits until it covers the resulting bit-length
RECURSIVE NonceLoop(_, _, _)
NonceLoop(random_bits, base_bits, nonce_bits) ==
  IF random_bits + nonce_bits + 1 >= base_bits
  THEN [error |-> TRUE, nonce_bits |-> nonce_bits, next_bits |-> 0]
  ELSE LET next_bits == nonce_bits + random_bits + base_bits + 1
       IN IF nonce_bits >= nonce_bits_needed(next_bits)
          THEN [error |-> FALSE, nonce_bits |-> nonce_bits, next_bits |-> next_bits]
          ELSE NonceLoop(random_bits, base_bits, nonce_bits + 1)

\* a scan that keeps the first applicable base, whatever bit-length it gives
RECURSIVE ScanBases_FirstFit(_, _, _)
ScanBases_FirstFit(tbl, next, k) ==
  IF k = 0 THEN next
  ELSE LET base == tbl[k]
           random_bits == next.entropy - base.entropy
           l == NonceLoop(random_bits, base.bits, 0)
       IN IF ~l.error /\ next.bits = UsizeMax
          THEN ScanBases_FirstFit(tbl,
                                [next EXCEPT !.bits = l.next_bits,
                                             !.marginal_entropy = random_bits,
                                             !.random_bits = random_bits + l.nonce_bits,
                                             !.nonce_bits = l.nonce_bits],
                                k - 1)
          ELSE ScanBases_FirstFit(tbl, next, k - 1)

\* for base in table.as_slice().iter().rev() { .. }, tbl[k] being `base`
RECURSIVE ScanBases(_, _, _)
ScanBases(tbl, next, k) ==
  IF k = 0 THEN next
  ELSE LET base == tbl[k]
           random_bits == next.entropy - base.entropy
           l == NonceLoop(random_bits, base.bits, 0)
       IN IF ~l.error /\ l.next_bits < next.bits
          THEN ScanBases(tbl,
                         [next EXCEPT !.bits = l.next_bits,
                                      !.marginal_entropy = random_bits,
                                      !.random_bits = random_bits + l.nonce_bits,
                                      !.nonce_bits = l.nonce_bits],
                         k - 1)
          ELSE ScanBases(tbl, next, k - 1)

NextEntry(tbl) ==
  ScanBases(tbl,
            [entropy |-> Last(tbl).entropy + 1,
             marginal_entropy |-> 0,
             bits |-> UsizeMax,
             random_bits |-> 0,
             nonce_bits |-> 0],
            Len(tbl))

\* WalkBack stepping one entry at a time instead of by marginal_entropy
RECURSIVE WalkBack_ByOne(_, _)
WalkBack_ByOne(tbl, i) ==
  IF i > 0
  THEN WalkBack_ByOne(tbl, i - 1)
         \o <<[nonce_bits |-> tbl[i + 1].nonce_bits,
               random_bits |-> tbl[i + 1].random_bits]>>
  ELSE <<>>

\* the walk back from the last entry; i is the 0-based index of the source
RECURSIVE WalkBack(_, _)
WalkBack(tbl, i) ==
  IF i > 0
  THEN WalkBack(tbl, i - tbl[i + 1].marginal_entropy)
         \o <<[nonce_bits |-> tbl[i + 1].nonce_bits,
               random_bits |-> tbl[i + 1].random_bits]>>
  ELSE <<>>

\* PlanOf forgetting the three fixed bits of the seed
PlanOf_NoFixedBits(tbl) ==
  [initial_entropy |-> SeedBits - SeedNonceBits,
   nonce_bits |-> SeedNonceBits,
   extensions |-> WalkBack(tbl, Len(tbl) - 1)]

PlanOf(tbl) ==
  [initial_entropy |-> 29 - SeedNonceBits,
   nonce_bits |-> SeedNonceBits,
   extensions |-> WalkBack(tbl, Len(tbl) - 1)]

\* .map(|i| i.random_bits - i.nonce_bits).sum() over the first k extensions
RECURSIVE SumMarginal(_, _)
SumMarginal(exts, k) ==
  IF k = 0 THEN 0
  ELSE (exts[k].random_bits - exts[k].nonce_bits) + SumMarginal(exts, k - 1)

plan_entropy(p) == SumMarginal(p.extensions, Len(p.extensions)) + p.initial_entropy

\* .map(|i| i.random_bits + 1).sum() over the first k extensions
RECURSIVE SumBits(_, _)
SumBits(exts, k) ==
  IF k = 0 THEN 0
  ELSE (exts[k].random_bits + 1) + SumBits(exts, k - 1)

max_bits(p) == SumBits(p.extensions, Len(p.extensions)) + 32

NoPlan == [initial_entropy |-> 0, nonce_bits |-> 0, extensions |-> <<>>]

\* PocklingtonPlan::new as a whole: the table grown to the requested entropy
RECURSIVE BuildTable(_, _)
BuildTable(tbl, e) ==
  IF Last(tbl).entropy < e /\ NextEntry(tbl).bits # UsizeMax
  THEN BuildTable(Append(tbl, NextEntry(tbl)), e)
  ELSE tbl

PlanPanics(e) ==
  \/ e < MinEntropy
  \/ Last(BuildTable(<<SeedEntry>>, e)).entropy # e

PocklingtonPlan_new(e) == PlanOf(BuildTable(<<SeedEntry>>, e))

(***************************************************************************)
(* Collaborators outside this file: the MiMC permutation, low_k_bits, the  *)
(* entropy source and the 32-bit Miller-Rabin test                         *)
(***************************************************************************)

\* mimc::helper::permutation: a keyless MiMC-style permutation, here over the
\* field of MimcModulus elements (x -> x^3 is a bijection since
\* MimcModulus = 2 mod 3)
MimcModulus == 32687

MimcConstants == <<209, 12294, 27671>>

Cube(x) == (((x * x) % MimcModulus) * x) % MimcModulus

RECURSIVE MimcFrom(_, _)
MimcFrom(x, j) ==
  IF j > Len(MimcConstants) THEN x
  ELSE MimcFrom(Cube((x + MimcConstants[j]) % MimcModulus), j + 1)

mimc_permutation(x) == MimcFrom(x % MimcModulus, 1)

low_k_bits(x, k) == x % Pow2(k)

\* low_k_bits(f_to_nat(mimc::helper::permutation(F::from_str(i))), nonce_bits)
mimcd_nonce(i, nonce_bits) == FromInt(low_k_bits(mimc_permutation(i), nonce_bits))

Rep(b, n) == [j \in 1..n |-> b]

\* the value of the bits s[lo..hi], s[hi] the least significant
RECURSIVE IntOfBits(_, _, _)
IntOfBits(s, lo, hi) ==
  IF hi < lo THEN 0 ELSE s[hi] + 2 * IntOfBits(s, lo, hi - 1)

\* the limbs of the bit string s[1..n], most significant bit first
RECURSIVE LimbsOfBits(_, _)
LimbsOfBits(s, n) ==
  IF n <= 0 THEN <<>>
  ELSE <<IntOfBits(s, IF n > LimbBits THEN n - LimbBits + 1 ELSE 1, n)>>
         \o LimbsOfBits(s, n - LimbBits)

NatOfBits(s) == Trim(LimbsOfBits(s, Len(s)))

\* EntropySource::get_bits_as_nat: leading ones, the next random_bits bits of
\* the stream, trailing ones
get_bits_as_nat(bits, template) ==
  [nat |-> NatOfBits(Rep(1, template.leading_ones)
                       \o SubSeq(bits, 1, template.random_bits)
                       \o Rep(1, template.trailing_ones)),
   rest |-> SubSeq(bits, template.random_bits + 1, Len(bits))]

SeedTemplate == [trailing_ones |-> 2, leading_ones |-> 1, random_bits |-> 29]

ExtensionTemplate(extension) ==
  [random_bits |-> extension.random_bits, trailing_ones |-> 0, leading_ones |-> 1]

IsOdd(a) == a # <<>> /\ a[1] % 2 = 1

RECURSIVE OddPart(_)
OddPart(d) == IF d = <<>> \/ IsOdd(d) THEN d ELSE OddPart(DivSmall(d, 2))

RECURSIVE TwoPart(_)
TwoPart(d) == IF d = <<>> \/ IsOdd(d) THEN 0 ELSE 1 + TwoPart(DivSmall(d, 2))

\* x, x^2, x^4, .. (j squarings) reaches n - 1
RECURSIVE ReachesMinusOne(_, _, _)
ReachesMinusOne(x, n, j) ==
  /\ j > 0
  /\ x # One
  /\ LET y == Mod(Mul(x, x), n)
     IN y = Sub(n, One) \/ ReachesMinusOne(y, n, j - 1)

\* one round of the strong probable-prime test of odd n > 2 to base a
MillerRabinRound(n, a) ==
  LET x == ModPow(Mod(a, n), OddPart(Sub(n, One)), n)
  IN \/ Mod(a, n) = Zero
     \/ x = One
     \/ x = Sub(n, One)
     \/ ReachesMinusOne(x, n, TwoPart(Sub(n, One)) - 1)

\* miller_rabin_32b: the bases 2, 7 and 61 decide primality below 2^32
miller_rabin_32b(n) ==
  /\ Less(One, n)
  /\ (n = <<2>> \/ IsOdd(n))
  /\ \A a \in {2, 7, 61} : MillerRabinRound(n, <<a>>)

(***************************************************************************)
(* State                                                                   *)
(***************************************************************************)

VARIABLES
  entry,       \* the function that was called
  entropy,     \* the `entropy` argument
  table,       \* PocklingtonPlan::new: the DP table
  plan,        \* the plan once built
  pc,          \* position in the program
  field,       \* hash_to_pocklington_prime: inputs.last(), the counter field
  nonce,       \* hash_to_pocklington_prime: the loop variable `nonce`
  hashlog,     \* base_hash: the digests it has returned, by counter field
  stream,      \* execute_pocklington_plan: `hash`, as the bits drawn from it
  bits,        \* execute_pocklington_plan: the entropy source `bits`
  cert,        \* the certificate `certificate` / `p`
  ext_ix,      \* execute_pocklington_plan: index of `extension` in the plan
  att,         \* attempt_pocklington_extension: random, i, number, base, ..
  tried,       \* history: the counter fields hashed so far and their outcome
  result,      \* what the called function returned
  circuit,     \* the circuit procedure: the BigNat it returned
  reach        \* every sequence of extensions: the bit-lengths it can reach

vars == <<entry, entropy, table, plan, pc, field, nonce, hashlog, stream, bits,
          cert, ext_ix, att, tried, result, circuit, reach>>

certVars == <<entry, field, nonce, hashlog, stream, bits, cert, ext_ix, att, tried,
              result, circuit, reach>>

NoCert == [base_prime |-> Zero, base_nonce |-> 0, extensions |-> <<>>]

NoAtt == [random |-> Zero, i |-> 0, nonced_extension |-> Zero, number |-> Zero,
          base |-> Zero]

NoCircuit == [done |-> FALSE, error |-> FALSE, sat |-> FALSE, prime |-> Zero]

\* PocklingtonCertificate::number
number(p) ==
  IF p.extensions # <<>> THEN Last(p.extensions).result ELSE p.base_prime

\* largest entropy PocklingtonPlan::new is asked for
MaxPlanEntropy == 72

(***************************************************************************)
(* PocklingtonPlan::new, one `while` iteration per step                    *)
(***************************************************************************)

InitPlan ==
  /\ entropy \in MinEntropy..MaxPlanEntropy
  /\ table = <<SeedEntry>>
  /\ plan = NoPlan
  /\ pc = "dp"
  /\ entry = "PocklingtonPlan::new"
  /\ field = 0 /\ nonce = 0 /\ hashlog = <<>> /\ stream = <<>> /\ bits = <<>>
  /\ cert = NoCert /\ ext_ix = 0 /\ att = NoAtt /\ tried = <<>>
  /\ result = "running" /\ circuit = NoCircuit /\ reach = <<>>

\* while table.last().entropy < entropy { ...; assert_ne!; table.push(next) }
PlanStep ==
  /\ pc = "dp"
  /\ Last(table).entropy < entropy
  /\ LET next == NextEntry(table)
     IN IF next.bits = UsizeMax
        THEN pc' = "panic" /\ table' = table
        ELSE pc' = "dp" /\ table' = Append(table, next)
  /\ UNCHANGED <<entropy, plan>>
  /\ UNCHANGED certVars

\* assert_eq!(table.last().entropy, entropy); the walk back; Self { .. }
PlanFinish ==
  /\ pc = "dp"
  /\ ~(Last(table).entropy < entropy)
  /\ IF Last(table).entropy # entropy
     THEN pc' = "panic" /\ plan' = plan
     ELSE pc' = "planned" /\ plan' = PlanOf(table)
  /\ UNCHANGED <<entropy, table>>
  /\ UNCHANGED certVars

NextPlan == PlanStep \/ PlanFinish

SpecPlan == InitPlan /\ [][NextPlan]_vars

(***************************************************************************)
(* Every sequence of extensions from the seed entry                        *)
(*                                                                         *)
(* reach[i] belongs to the entropy SeedEntry.entropy + i - 1: bits is the  *)
(* set of bit-length bounds some sequence of extensions from the seed      *)
(* entry has at that entropy, each extension made by the inner loop of     *)
(* PocklingtonPlan::new; marginals counts the marginal entropies 1, 2, ..  *)
(* of the last extension taken so far.                                     *)
(***************************************************************************)

\* the bit-length bounds one extension of marginal entropy m gives from the
\* bounds in `from`: those for which the inner loop ends without error
StepsFrom(from, m) ==
  {l.next_bits : l \in {x \in {NonceLoop(m, b, 0) : b \in from} : ~x.error}}

LevelDone == Last(reach).marginals = Len(reach) - 1

InitSearch ==
  /\ entropy = SeedEntry.entropy
  /\ table = <<SeedEntry>>
  /\ plan = NoPlan
  /\ pc = "search"
  /\ entry = "PocklingtonPlan::new"
  /\ reach = <<[marginals |-> 0, bits |-> {SeedEntry.bits}]>>
  /\ field = 0 /\ nonce = 0 /\ hashlog = <<>> /\ stream = <<>> /\ bits = <<>>
  /\ cert = NoCert /\ ext_ix = 0 /\ att = NoAtt /\ tried = <<>>
  /\ result = "running" /\ circuit = NoCircuit

\* the sequences whose last extension has the next marginal entropy
SearchStep ==
  /\ pc = "search"
  /\ ~LevelDone
  /\ LET i == Len(reach)
         m == reach[i].marginals + 1
     IN reach' = [reach EXCEPT ![i] =
                    [marginals |-> m,
                     bits |-> @.bits \cup StepsFrom(reach[i - m].bits, m)]]
  /\ UNCHANGED <<entry, entropy, table, plan, pc, field, nonce, hashlog, stream,
                 bits, cert, ext_ix, att, tried, result, circuit>>

\* the next entropy
SearchLevel ==
  /\ pc = "search"
  /\ LevelDone
  /\ entropy < MaxPlanEntropy
  /\ entropy' = entropy + 1
  /\ reach' = Append(reach, [marginals |-> 0, bits |-> {}])
  /\ UNCHANGED <<entry, table, plan, pc, field, nonce, hashlog, stream, bits, cert,
                 ext_ix, att, tried, result, circuit>>

NextSearch == SearchStep \/ SearchLevel

SpecSearch == InitSearch /\ [][NextSearch]_vars

(***************************************************************************)
(* Inputs of the certificate search                                        *)
(***************************************************************************)

\* entropies hash_to_pocklington_prime is called with: the smallest one and
\* MaxHashEntropy
MaxHashEntropy == 39

HashEntropies == {MinEntropy, MaxHashEntropy}

\* counter fields below HashLead may hash to any of the digests below; the
\* hashers considered map every later counter to a digest with a composite seed
HashLead == 2

\* the 29 random bits of a prime seed: 2^31 + 11 (the smallest prime the
\* template can give) and 2^32 - 5 (the largest)
SeedPatterns == {Rep(0, 27) \o <<1, 0>>, Rep(1, 28) \o <<0>>}

\* the number of bits the first k extensions draw
RECURSIVE SumRandomBits(_, _)
SumRandomBits(exts, k) ==
  IF k = 0 THEN 0 ELSE exts[k].random_bits + SumRandomBits(exts, k - 1)

\* a digest of zeros, whose seed 2^31 + 3 is composite
DullStream(p) == Rep(0, 29 + SumRandomBits(p.extensions, Len(p.extensions)))

\* the digests of base_hash, as the bit streams the entropy source makes of
\* them: a prime seed, and every extension's random bits all zeros or all ones
Streams(p) ==
  {DullStream(p)} \cup
  {s \o Rep(f, SumRandomBits(p.extensions, Len(p.extensions))) :
     s \in SeedPatterns, f \in {0, 1}}

\* plans execute_pocklington_plan is called with directly: up to
\* MaxTestExtensions extensions of one kind
MaxTestNonceBits == 1

MaxTestRandomBits == 2

MaxTestExtensions == 2

TestExtensions == [nonce_bits : 0..MaxTestNonceBits, random_bits : 1..MaxTestRandomBits]

TestPlans ==
  {[initial_entropy |-> 29, nonce_bits |-> 0, extensions |-> [j \in 1..n |-> x]] :
     x \in TestExtensions, n \in 0..MaxTestExtensions}

\* certificates attempt_pocklington_extension is called with directly
MaxBasePrime == 7

(***************************************************************************)
(* base_hash.hash(&inputs)                                                 *)
(***************************************************************************)

\* the digests base_hash can return for the inputs ending in counter field v
HashOf(log, p, v) ==
  IF v + 1 \in DOMAIN log THEN {log[v + 1]}
  ELSE IF v < HashLead THEN Streams(p)
  ELSE {DullStream(p)}

Remember(log, v, s) ==
  IF v < HashLead
  THEN [x \in (DOMAIN log) \cup {v + 1} |-> IF x = v + 1 THEN s ELSE log[x]]
  ELSE log

(***************************************************************************)
(* hash_to_pocklington_prime, execute_pocklington_plan,                    *)
(* attempt_pocklington_extension                                           *)
(***************************************************************************)

InitHash ==
  /\ entry = "hash_to_pocklington_prime"
  /\ entropy \in HashEntropies
  /\ table = <<>> /\ plan = NoPlan
  /\ pc = "new"
  /\ field = 0 /\ nonce = 0 /\ hashlog = <<>> /\ stream = <<>> /\ bits = <<>>
  /\ cert = NoCert /\ ext_ix = 0 /\ att = NoAtt /\ tried = <<>>
  /\ result = "running" /\ circuit = NoCircuit /\ reach = <<>>

InitExecute ==
  /\ entry = "execute_pocklington_plan"
  /\ entropy = 0 /\ table = <<>>
  /\ plan \in TestPlans
  /\ stream \in Streams(plan)
  /\ pc = "execute"
  /\ field = 0 /\ nonce = 0 /\ hashlog = <<>> /\ bits = <<>>
  /\ cert = NoCert /\ ext_ix = 0 /\ att = NoAtt /\ tried = <<>>
  /\ result = "running" /\ circuit = NoCircuit /\ reach = <<>>

\* the values get_bits_as_nat can draw for an extension
Randoms(x) == Pow2(x.random_bits)..(Pow2(x.random_bits + 1) - 1)

InitExtend ==
  /\ entry = "attempt_pocklington_extension"
  /\ entropy = 0 /\ table = <<>>
  /\ \E x \in TestExtensions :
       /\ plan = [initial_entropy |-> 0, nonce_bits |-> 0, extensions |-> <<x>>]
       /\ att \in {[NoAtt EXCEPT !.random = FromInt(r)] : r \in Randoms(x)}
  /\ \E p \in 1..MaxBasePrime :
       cert = [base_prime |-> FromInt(p), base_nonce |-> 0, extensions |-> <<>>]
  /\ pc = "nonce"
  /\ ext_ix = 1
  /\ field = 0 /\ nonce = 0 /\ hashlog = <<>> /\ stream = <<>> /\ bits = <<>>
  /\ tried = <<>>
  /\ result = "running" /\ circuit = NoCircuit /\ reach = <<>>

Init == InitHash \/ InitExecute \/ InitExtend

\* let plan = PocklingtonPlan::new(entropy); inputs.push(H::F::zero())
NewPlan ==
  /\ pc = "new"
  /\ IF PlanPanics(entropy)
     THEN pc' = "panic" /\ plan' = plan
     ELSE pc' = "loop" /\ plan' = PocklingtonPlan_new(entropy)
  /\ field' = 0
  /\ nonce' = 0
  /\ UNCHANGED <<reach, entry, entropy, table, hashlog, stream, bits, cert, ext_ix, att,
                 tried, result, circuit>>

\* for nonce in 0..(1 << plan.nonce_bits) { let hash = base_hash.hash(&inputs);
HashStep ==
  /\ pc = "loop"
  /\ nonce < Pow2(plan.nonce_bits)
  /\ \E s \in HashOf(hashlog, plan, field) :
       /\ stream' = s
       /\ hashlog' = Remember(hashlog, field, s)
  /\ pc' = "execute"
  /\ UNCHANGED <<reach, entry, entropy, table, plan, field, nonce, bits, cert, ext_ix,
                 att, tried, result, circuit>>

\* the loop of hash_to_pocklington_prime runs out: None
Exhausted ==
  /\ pc = "loop"
  /\ ~(nonce < Pow2(plan.nonce_bits))
  /\ result' = "none"
  /\ pc' = "done"
  /\ UNCHANGED <<reach, entry, entropy, table, plan, field, nonce, hashlog, stream, bits,
                 cert, ext_ix, att, tried, circuit>>

\* a loop that forgets to step the counter field
ReturnNone_KeepField ==
  /\ cert' = NoCert
  /\ IF entry = "hash_to_pocklington_prime"
     THEN /\ field' = field
          /\ nonce' = nonce + 1
          /\ tried' = Append(tried, [field |-> field, ok |-> FALSE])
          /\ pc' = "loop"
          /\ result' = result
     ELSE /\ result' = "none"
          /\ pc' = "done"
          /\ UNCHANGED <<field, nonce, tried>>

\* execute_pocklington_plan returns None: its caller is the loop of
\* hash_to_pocklington_prime (inputs.last_mut().unwrap().add_assign(one)),
\* or the environment
ReturnNone ==
  /\ cert' = NoCert
  /\ IF entry = "hash_to_pocklington_prime"
     THEN /\ field' = field + 1
          /\ nonce' = nonce + 1
          /\ tried' = Append(tried, [field |-> field, ok |-> FALSE])
          /\ pc' = "loop"
          /\ result' = result
     ELSE /\ result' = "none"
          /\ pc' = "done"
          /\ UNCHANGED <<field, nonce, tried>>

\* EntropySource::new; the seed; miller_rabin_32b; the empty certificate
ExecuteStart ==
  /\ pc = "execute"
  /\ LET drawn == get_bits_as_nat(stream, SeedTemplate)
     IN IF ~miller_rabin_32b(drawn.nat)
        THEN ReturnNone /\ UNCHANGED <<bits, ext_ix>>
        ELSE /\ cert' = [base_prime |-> drawn.nat, base_nonce |-> nonce,
                         extensions |-> <<>>]
             /\ bits' = drawn.rest
             /\ ext_ix' = 1
             /\ pc' = "extension"
             /\ UNCHANGED <<field, nonce, tried, result>>
  /\ UNCHANGED <<reach, entry, entropy, table, plan, hashlog, stream, att, circuit>>

\* for extension in &plan.extensions { let random = bits.get_bits_as_nat(..);
DrawRandom ==
  /\ pc = "extension"
  /\ ext_ix <= Len(plan.extensions)
  /\ LET drawn == get_bits_as_nat(bits, ExtensionTemplate(plan.extensions[ext_ix]))
     IN /\ att' = [NoAtt EXCEPT !.random = drawn.nat]
        /\ bits' = drawn.rest
  /\ pc' = "nonce"
  /\ UNCHANGED <<reach, entry, entropy, table, plan, field, nonce, hashlog, stream, cert,
                 ext_ix, tried, result, circuit>>

\* Some(certificate), which hash_to_pocklington_prime returns at once
ExecuteReturn ==
  /\ pc = "extension"
  /\ ext_ix > Len(plan.extensions)
  /\ result' = "some"
  /\ pc' = "done"
  /\ tried' = IF entry = "hash_to_pocklington_prime"
              THEN Append(tried, [field |-> field, ok |-> TRUE])
              ELSE tried
  /\ UNCHANGED <<reach, entry, entropy, table, plan, field, nonce, hashlog, stream, bits,
                 cert, ext_ix, att, circuit>>

\* for i in 0..(1 << plan.nonce_bits) { nonced_extension; number; base = 2
NonceStep ==
  /\ pc = "nonce"
  /\ att.i < Pow2(plan.extensions[ext_ix].nonce_bits)
  /\ LET nonced_extension ==
           Add(att.random, mimcd_nonce(att.i, plan.extensions[ext_ix].nonce_bits))
     IN att' = [att EXCEPT !.nonced_extension = nonced_extension,
                           !.number = Add(Mul(number(cert), nonced_extension), One),
                           !.base = <<2>>]
  /\ pc' = "base"
  /\ UNCHANGED <<reach, entry, entropy, table, plan, field, nonce, hashlog, stream, bits,
                 cert, ext_ix, tried, result, circuit>>

\* Err(p): every nonce was tried; execute_pocklington_plan makes it None
AttemptFails ==
  /\ pc = "nonce"
  /\ ~(att.i < Pow2(plan.extensions[ext_ix].nonce_bits))
  /\ IF entry = "attempt_pocklington_extension"
     THEN /\ result' = "err"
          /\ pc' = "done"
          /\ UNCHANGED <<cert, field, nonce, tried>>
     ELSE ReturnNone
  /\ UNCHANGED <<reach, entry, entropy, table, plan, hashlog, stream, bits, ext_ix, att,
                 circuit>>

\* a test that the power is not zero, where it must be one
fermat_holds_NonZero(part, prior, num) == ModPow(part, prior, num) # Zero

\* part.modpow(p.number(), &number) == 1
fermat_holds(part, prior, num) == ModPow(part, prior, num) = One

\* (&part - 1usize).gcd(&number).is_one()
coprime(part, num) == Gcd(Sub(part, One), num) = One

NextNonce ==
  /\ att' = [att EXCEPT !.i = @ + 1]
  /\ pc' = "nonce"
  /\ UNCHANGED <<cert, ext_ix, result>>

\* an extension recorded with the nonced extension as its random
PushExtension_NoncedRandom ==
  /\ cert' = [cert EXCEPT !.extensions =
                Append(@, [plan |-> plan.extensions[ext_ix],
                           random |-> att.nonced_extension,
                           checking_base |-> att.base,
                           result |-> att.number,
                           nonce |-> att.i])]
  /\ att' = att
  /\ IF entry = "attempt_pocklington_extension"
     THEN result' = "ok" /\ pc' = "done" /\ ext_ix' = ext_ix
     ELSE result' = result /\ pc' = "extension" /\ ext_ix' = ext_ix + 1

\* p.extensions.push(PocklingtonExtension { .. }); return Ok(p)
PushExtension ==
  /\ cert' = [cert EXCEPT !.extensions =
                Append(@, [plan |-> plan.extensions[ext_ix],
                           random |-> att.random,
                           checking_base |-> att.base,
                           result |-> att.number,
                           nonce |-> att.i])]
  /\ att' = att
  /\ IF entry = "attempt_pocklington_extension"
     THEN result' = "ok" /\ pc' = "done" /\ ext_ix' = ext_ix
     ELSE result' = result /\ pc' = "extension" /\ ext_ix' = ext_ix + 1

\* a search that goes on to the next base when the Fermat test fails
BaseStep_NextBase ==
  /\ pc = "base"
  /\ IF ~Less(att.base, att.number)
     THEN NextNonce
     ELSE LET part == ModPow(att.base, att.nonced_extension, att.number)
          IN IF fermat_holds(part, number(cert), att.number) /\ coprime(part, att.number)
             THEN PushExtension
             ELSE /\ att' = [att EXCEPT !.base = Add(@, One)]
                  /\ pc' = "base"
                  /\ UNCHANGED <<cert, ext_ix, result>>
  /\ UNCHANGED <<reach, entry, entropy, table, plan, field, nonce, hashlog, stream, bits,
                 tried, circuit>>

\* one evaluation of `while base < number { .. }`
BaseStep ==
  /\ pc = "base"
  /\ IF ~Less(att.base, att.number)
     THEN NextNonce
     ELSE LET part == ModPow(att.base, att.nonced_extension, att.number)
          IN IF ~fermat_holds(part, number(cert), att.number)
             THEN NextNonce
             ELSE IF coprime(part, att.number)
                  THEN PushExtension
                  ELSE /\ att' = [att EXCEPT !.base = Add(@, One)]
                       /\ pc' = "base"
                       /\ UNCHANGED <<cert, ext_ix, result>>
  /\ UNCHANGED <<reach, entry, entropy, table, plan, field, nonce, hashlog, stream, bits,
                 tried, circuit>>

(***************************************************************************)
(* The circuit procedure hash_to_pocklington_prime                         *)
(***************************************************************************)

\* allocate_hash of the inputs with the hinted base_nonce appended
CircuitHash(log, p, v) ==
  IF v + 1 \in DOMAIN log THEN log[v + 1] ELSE DullStream(p)

\* an extension whose nonced_extension leaves the nonce mask out
circuit_extension_NoMask(st, extension, hint) ==
  LET drawn == get_bits_as_nat(st.bits, ExtensionTemplate(extension))
      n == Add(Mul(drawn.nat, st.prime), One)
      part == ModPow(hint.checking_base, drawn.nat, n)
  IN [prime |-> n,
      bits |-> drawn.rest,
      sat |-> /\ st.sat
              /\ Gcd(Sub(part, One), n) = One
              /\ ModPow(part, st.prime, n) = One]

\* one pass of `for (i, extension) in plan.extensions`: the hinted nonce and
\* base, n = nonced_extension * prime + 1 and the two enforced constraints
circuit_extension(st, extension, hint) ==
  LET mask == mimcd_nonce(hint.nonce, extension.nonce_bits)
      drawn == get_bits_as_nat(st.bits, ExtensionTemplate(extension))
      nonced_extension == Add(drawn.nat, mask)
      n == Add(Mul(nonced_extension, st.prime), One)
      part == ModPow(hint.checking_base, nonced_extension, n)
  IN [prime |-> n,
      bits |-> drawn.rest,
      sat |-> /\ st.sat
              /\ Gcd(Sub(part, One), n) = One
              /\ ModPow(part, st.prime, n) = One]

RECURSIVE circuit_extensions(_, _, _, _)
circuit_extensions(st, p, c, j) ==
  IF j > Len(p.extensions) THEN st
  ELSE circuit_extensions(circuit_extension(st, p.extensions[j], c.extensions[j]),
                          p, c, j + 1)

\* the seed drawn from the hash of the inputs and the hinted base_nonce, and
\* the constraint that miller_rabin_32b accepts it
circuit_seed(log, p, c) ==
  LET drawn == get_bits_as_nat(CircuitHash(log, p, c.base_nonce), SeedTemplate)
  IN [prime |-> drawn.nat, bits |-> drawn.rest, sat |-> miller_rabin_32b(drawn.nat)]

\* the circuit procedure, run on the inputs the native derivation ended on
Synthesize ==
  /\ pc = "done"
  /\ entry = "hash_to_pocklington_prime"
  /\ IF result = "none"
     THEN circuit' = [NoCircuit EXCEPT !.done = TRUE, !.error = TRUE]
     ELSE LET st == circuit_extensions(circuit_seed(hashlog, plan, cert), plan, cert, 1)
          IN circuit' = [done |-> TRUE, error |-> FALSE, sat |-> st.sat,
                         prime |-> st.prime]
  /\ pc' = "synthesized"
  /\ UNCHANGED <<reach, entry, entropy, table, plan, field, nonce, hashlog, stream, bits,
                 cert, ext_ix, att, tried, result>>

\* attempt_pocklington_extension, called with the certificate it returned and
\* the same planned extension
ExtendAgain ==
  /\ pc = "done"
  /\ entry = "attempt_pocklington_extension"
  /\ result = "ok"
  /\ Len(cert.extensions) < MaxTestExtensions
  /\ att' \in {[NoAtt EXCEPT !.random = FromInt(r)] : r \in Randoms(plan.extensions[1])}
  /\ result' = "running"
  /\ pc' = "nonce"
  /\ UNCHANGED <<reach, entry, entropy, table, plan, field, nonce, hashlog, stream, bits,
                 cert, ext_ix, tried, circuit>>

Next ==
  \/ NewPlan
  \/ HashStep
  \/ Exhausted
  \/ ExecuteStart
  \/ DrawRandom
  \/ ExecuteReturn
  \/ NonceStep
  \/ AttemptFails
  \/ BaseStep
  \/ Synthesize
  \/ ExtendAgain

Spec == Init /\ [][Next]_vars

(***************************************************************************)
(* Properties of the plan                                                  *)
(***************************************************************************)

\* B before extension k: 32 for the first, then the previous bound plus the
\* previous extension's random_bits + 1 (as max_bits() accumulates it)
RECURSIVE BoundBefore(_, _)
BoundBefore(p, k) ==
  IF k = 1 THEN 32
  ELSE BoundBefore(p, k - 1) + p.extensions[k - 1].random_bits + 1

Planned == pc = "planned"

\* C4: for every entropy >= 29 PocklingtonPlan::new fails no assertion and the
\* plan it returns has entropy() equal to the requested entropy.
C4_PlanReachesEntropy ==
  /\ pc # "panic"
  /\ Planned => plan_entropy(plan) = entropy

C4_Witness ==
  /\ Planned
  /\ Len(plan.extensions) >= 2
  /\ plan_entropy(plan) = entropy

\* C7 as stated: every planned extension's own fields satisfy
\* random_bits + nonce_bits + 1 < B.
C7_Original ==
  Planned =>
    \A k \in 1..Len(plan.extensions) :
      plan.extensions[k].random_bits + plan.extensions[k].nonce_bits + 1
        < BoundBefore(plan, k)

\* C7 amended: the bound the DP enforces is on the marginal entropy plus the
\* nonce bits, that is on the extension's random_bits field alone:
\* random_bits + 1 < B, and random_bits >= nonce_bits + 1.
C7_RandomBitsBelowBound ==
  Planned =>
    \A k \in 1..Len(plan.extensions) :
      /\ plan.extensions[k].random_bits + 1 < BoundBefore(plan, k)
      /\ plan.extensions[k].random_bits >= plan.extensions[k].nonce_bits + 1

C7_Witness ==
  /\ Planned
  /\ Len(plan.extensions) >= 2
  /\ plan.extensions[1].random_bits + 2 = BoundBefore(plan, 1)
  /\ plan.extensions[1].random_bits + plan.extensions[1].nonce_bits + 1
       >= BoundBefore(plan, 1)

\* C10 as stated: the plan's seed entry reserves nonce_bits_needed(32) nonce
\* bits and its entropy is 32 - 3 - nonce_bits_needed(32).
C10_Original ==
  Planned =>
    /\ plan.nonce_bits = nonce_bits_needed(32)
    /\ plan.initial_entropy = 32 - 3 - nonce_bits_needed(32)

\* C10 amended: the seed entry reserves one bit less, nonce_bits_needed(32) - 1,
\* and initial_entropy is 32 - 3 - (nonce_bits_needed(32) - 1), the entropy of
\* the table's first entry.
C10_SeedReservesOneLess ==
  Planned =>
    /\ plan.nonce_bits = nonce_bits_needed(32) - 1
    /\ plan.initial_entropy = 32 - 3 - (nonce_bits_needed(32) - 1)
    /\ plan.initial_entropy = table[1].entropy
    /\ plan.nonce_bits = table[1].nonce_bits

C10_Witness ==
  /\ Planned
  /\ plan.nonce_bits = 9
  /\ plan.initial_entropy = 20


(***************************************************************************)
(* Properties of the certificates                                          *)
(***************************************************************************)

\* the strong probable-prime test to the bases 2..41 decides primality below
\* 3.3 * 10^24, which is above 2^81
PrimeBases == {2, 3, 5, 7, 11, 13, 17, 19, 23, 29, 31, 37, 41}

IsPrime(n) ==
  /\ Less(One, n)
  /\ \/ n = <<2>>
     \/ IsOdd(n) /\ \A a \in PrimeBases : MillerRabinRound(n, <<a>>)

Hashed == entry = "hash_to_pocklington_prime"

\* the called function has just returned a certificate
Returned == pc = "done" /\ result \in {"some", "ok"}

\* the number extension i of certificate c multiplies
prior(c, i) == IF i = 1 THEN c.base_prime ELSE c.extensions[i - 1].result

\* random + low nonce_bits bits of the secondary hash of nonce
extension_value(x) == Add(x.random, mimcd_nonce(x.nonce, x.plan.nonce_bits))

\* C1: when the native hash_to_pocklington_prime returns Some(cert),
\* cert.number() is a prime number.
C1_NumberIsPrime == (Hashed /\ Returned) => IsPrime(number(cert))

C1_Witness ==
  /\ Hashed /\ Returned
  /\ cert.extensions # <<>>
  /\ cert.extensions[1].nonce > 0

\* C2: in every returned certificate every extension satisfies
\* result = prior * extension_value + 1, and part = checking_base^extension_value
\* mod result satisfies part^prior mod result = 1 and gcd(part - 1, result) = 1.
C2_PocklingtonRelation ==
  Returned =>
    \A i \in 1..Len(cert.extensions) :
      LET x == cert.extensions[i]
          part == ModPow(x.checking_base, extension_value(x), x.result)
      IN /\ x.result = Add(Mul(prior(cert, i), extension_value(x)), One)
         /\ ModPow(part, prior(cert, i), x.result) = One
         /\ Gcd(Sub(part, One), x.result) = One

C2_Witness ==
  /\ Returned
  /\ Len(cert.extensions) = 2
  /\ \E i \in 1..2 : extension_value(cert.extensions[i]) # cert.extensions[i].random

\* C3: when the native derivation returns a certificate, the value the circuit
\* procedure returns on the same inputs equals certificate.number().
C3_CircuitAgrees ==
  (circuit.done /\ result = "some") =>
    /\ ~circuit.error
    /\ circuit.prime = number(cert)

C3_Witness ==
  /\ circuit.done /\ result = "some"
  /\ cert.base_nonce = 1
  /\ cert.extensions[1].nonce > 0
  /\ extension_value(cert.extensions[1]) # cert.extensions[1].random

\* C5: the bit-length of the number of a certificate built by
\* execute_pocklington_plan from a plan is at most plan.max_bits().
C5_BitLength ==
  (result = "some") => Bits(number(cert)) <= max_bits(plan)

\* C6: the counters 0, 1, 2, .. are hashed in ascending order as the last
\* input field, the certificate returned is that of the smallest counter below
\* 2^plan.nonce_bits for which execute_pocklington_plan succeeds, with
\* base_nonce = that counter, and None is returned exactly when none succeeds.
C6_SmallestCounter ==
  Hashed =>
    /\ \A j \in 1..Len(tried) :
         /\ tried[j].field = j - 1
         /\ tried[j].ok => (j = Len(tried) /\ result = "some")
    /\ pc = "execute" => (field = Len(tried) /\ nonce = field)
    /\ result = "some" =>
         /\ tried # <<>> /\ Last(tried).ok
         /\ cert.base_nonce = Last(tried).field
         /\ cert.base_nonce < Pow2(plan.nonce_bits)
    /\ result = "none" =>
         /\ Len(tried) = Pow2(plan.nonce_bits)
         /\ \A j \in 1..Len(tried) : ~tried[j].ok

C6_Witness == Hashed /\ result = "some" /\ cert.base_nonce = 1

\* C8: in every certificate built from PocklingtonPlan::new(entropy), at every
\* extension the factor r = random + nonce mask is less than the prior number.
C8_FactorBelowPrior ==
  (Hashed /\ result = "some") =>
    \A i \in 1..Len(cert.extensions) :
      Less(extension_value(cert.extensions[i]), prior(cert, i))

\* what the Fermat test of the base in hand gives
FermatNow ==
  ModPow(ModPow(att.base, att.nonced_extension, att.number), number(cert),
         att.number) = One

CoprimeNow ==
  Gcd(Sub(ModPow(att.base, att.nonced_extension, att.number), One), att.number) = One

SameCandidate == att'.i = att.i /\ att'.number = att.number /\ pc' = "base"

\* C9, as stated: the bases are tried from 2 upward, a base that fails the
\* Fermat test is followed by the next base for the same nonce and candidate,
\* and the next nonce is tried only when no base below the candidate is left.
C9_Original ==
  [][/\ (pc = "nonce" /\ pc' = "base") => att'.base = <<2>>
     /\ pc = "base" =>
          IF ~Less(att.base, att.number) THEN att'.i = att.i + 1 /\ pc' = "nonce"
          ELSE /\ att'.i = att.i
               /\ ~FermatNow => (att'.base = Add(att.base, One) /\ SameCandidate)]_vars

\* C9, amended: the bases are tried from 2 upward; a base that fails the Fermat
\* test ends the search for its candidate and the next nonce is tried; a base
\* that passes it and fails the gcd test is followed by the next base for the
\* same nonce and candidate; the next nonce is tried only after a Fermat
\* failure or when no base below the candidate is left.
C9_FermatFailureEndsCandidate ==
  [][/\ (pc = "nonce" /\ pc' = "base") => att'.base = <<2>>
     /\ pc = "base" =>
          IF ~Less(att.base, att.number) THEN att'.i = att.i + 1 /\ pc' = "nonce"
          ELSE IF ~FermatNow THEN att'.i = att.i + 1 /\ pc' = "nonce"
          ELSE /\ att'.i = att.i
               /\ ~CoprimeNow => (att'.base = Add(att.base, One) /\ SameCandidate)]_vars

C9_Witness ==
  /\ pc = "nonce" /\ att.i > 0
  /\ att.base = <<2>> /\ Less(att.base, att.number)


(***************************************************************************)
(* Optimality of the plan                                                  *)
(***************************************************************************)

Searched == pc = "search" /\ LevelDone /\ entropy >= MinEntropy

\* C11: PocklingtonPlan::new(entropy).max_bits() is the minimum final
\* bit-length over all sequences of extensions that start from the seed entry
\* and reach exactly that entropy.
C11_MaxBitsIsMinimum ==
  Searched =>
    LET planned == max_bits(PocklingtonPlan_new(entropy))
    IN /\ ~PlanPanics(entropy)
       /\ planned \in Last(reach).bits
       /\ \A b \in Last(reach).bits : planned <= b

C11_Witness ==
  /\ Searched
  /\ Len(PocklingtonPlan_new(entropy).extensions) > 1
  /\ \E b \in Last(reach).bits : b > max_bits(PocklingtonPlan_new(entropy))

====
